---- MODULE Spec2Model ----
(***************************************************************************)
(* DataBaseConnection: a thin wrapper around psycopg2.  Two copies of the  *)
(* class live in the repository:                                           *)
(*   packaged  src/app/psycopg_dbconn_class/src/psycopg_dbconn_class.py    *)
(*   legacy    src/psyco_db_class.py                                       *)
(* Each method is a pure operator on a "world" record (the handle's        *)
(* attributes, its config dict, the server-side connections and the trace  *)
(* of psycopg2 primitives called so far); each action applies one method   *)
(* to the current state.  Outcomes of psycopg2 primitives are inputs.      *)
(***************************************************************************)
EXTENDS Integers, Sequences, FiniteSets, TLC

VARIABLES variant, alive, cfgStore, default_cursor, connected, connection,
          cursor, conns, last

vars == <<variant, alive, cfgStore, default_cursor, connected, connection,
          cursor, conns, last>>

\* ------------------------------------------------------------- bounds
MaxConns == 2
MaxRows == 2
MaxEnvKeys == 6
MaxMissingKeys == 1
MaxUnsetVars == 1

\* ------------------------------------------------------------- values
Variants == {"packaged", "legacy"}
Handles == {"A", "B"}
None == "None"
ConfigKeys == <<"db_name", "db_host", "db_port", "db_user", "db_pass">>
ConfigKeySet == {ConfigKeys[i] : i \in 1..Len(ConfigKeys)}
ExtraKey == "db_extra"
LegacyJsonKey(k) ==
    CASE k = "db_name" -> "name"
      [] k = "db_host" -> "host"
      [] k = "db_port" -> "port"
      [] k = "db_user" -> "user"
      [] k = "db_pass" -> "pass"
LegacyJsonKeySet == {LegacyJsonKey(k) : k \in ConfigKeySet}
default_keys == <<"DBN", "DBU", "DBK", "DBH", "DBP">>
EnvNames == {default_keys[i] : i \in 1..Len(default_keys)}
EmptyConfig == [k \in ConfigKeySet |-> ""]

\* Python's self.__config: the legacy class keeps ONE class-level dict, the
\* packaged class creates a dict per instance in __init__.
\* Every handle keeping a config dict of its own, in both variants.
OwnerOf_instance(h) == h
OwnerOf(h) == IF variant = "legacy" THEN "class" ELSE h
Owners == Handles \cup {"class"}

\* ------------------------------------------------------------- inputs
SetterValues == {"", "a"}
Environments ==
    {e \in [EnvNames -> {None, "a"}] :
        Cardinality({n \in EnvNames : e[n] = None}) <= MaxUnsetVars}
EnvUniform(v) == [n \in EnvNames |-> v]
EnvKeyTuple(n) == [i \in 1..n |-> default_keys[(i % Len(default_keys)) + 1]]
\* env_keys: None (given = FALSE) or a tuple of names.
NoEnvKeys == [given |-> FALSE, keys |-> <<>>]
EnvKeyInputs == {NoEnvKeys} \cup {[given |-> TRUE, keys |-> EnvKeyTuple(n)] : n \in 0..MaxEnvKeys}
\* config_file: a path with no file behind it, or a file holding a JSON object.
MissingFile == [is_file |-> FALSE, loaded |-> <<>>]
JsonFiles(expected) ==
    {MissingFile} \cup
    {[is_file |-> TRUE, loaded |-> [k \in S |-> "a"]] :
        S \in {T \in SUBSET (expected \cup {ExtraKey}) :
                 \/ Cardinality(expected \ T) <= MaxMissingKeys
                 \/ expected \cap T = {}}}
FullFile(expected) == [is_file |-> TRUE, loaded |-> [k \in expected |-> "a"]]
ExpectedKeys == IF variant = "legacy" THEN LegacyJsonKeySet ELSE ConfigKeySet
Queries == {"q1", "q2"}
SessionStatement == "SET client_connection_check_interval TO 2000"
ValueInputs == {None, "list", "tuple"}
CursorTypes == {"realdict", "dict"}
DefaultCursorInputs == {"", "realdict", "dict", "RealDict", "bogus"}
ConnectOutcomes == {"ok", "OperationalError"}
ExecOutcomes == {"ok", "OperationalError", "ProgrammingError"}
\* The rows a statement yields: row i of the result set is named i.
RowSeqs == {[i \in 1..n |-> i] : n \in 0..MaxRows}
NoResult == [kind |-> "none", rows |-> <<>>]

\* ------------------------------------------------------------- world
World(h) ==
    [cfg |-> cfgStore[OwnerOf(h)], dcur |-> default_cursor[h],
     connected |-> connected[h], connection |-> connection[h],
     cursor |-> cursor[h], conns |-> conns,
     calls |-> <<>>, raised |-> "none", result |-> NoResult]

Call(w, name, a, b) == [w EXCEPT !.calls = Append(@, <<name, a, b>>)]
Raise(w, err) == [w EXCEPT !.raised = err]
Caught(w) == [w EXCEPT !.raised = "none"]
Count(calls, name) == Cardinality({i \in 1..Len(calls) : calls[i][1] = name})

\* ------------------------------------------------- psycopg2 primitives
\* psycopg2.connect(..., cursor_factory=cfactory): a new server connection, or
\* the error the library raises.
psycopg2_connect(w, cfactory, outcome) ==
    LET w1 == Call(w, "psycopg2.connect", cfactory, "")
    IN  IF outcome = "ok"
        THEN [w1 EXCEPT !.conns = Append(@, [open |-> TRUE, closes |-> 0,
                                             failed |-> FALSE, factory |-> cfactory])]
        ELSE Raise(w1, outcome)

\* cursor.execute on connection c: a statement sent inside a transaction that
\* has already failed raises InFailedSqlTransaction; a statement that fails
\* leaves the transaction in the failed state.
cursor_execute(w, c, query, values, outcome) ==
    LET w1 == Call(w, "execute", query, values)
        actual == IF w.conns[c].failed THEN "InFailedSqlTransaction" ELSE outcome
    IN  IF actual = "ok"
        THEN w1
        ELSE Raise([w1 EXCEPT !.conns[c].failed = TRUE], actual)

connection_commit(w, c) ==
    [Call(w, "commit", "", "") EXCEPT !.conns[c].failed = FALSE]

connection_rollback(w, c) ==
    [Call(w, "rollback", "", "") EXCEPT !.conns[c].failed = FALSE]

connection_close(w, c) ==
    [Call(w, "close", "", "") EXCEPT !.conns[c].open = FALSE,
                                      !.conns[c].closes = @ + 1]

\* cursor.fetchall() / cursor.fetchone() over the rows the statement produced.
cursor_fetch(w, fetch_all, rows) ==
    IF fetch_all
    THEN [Call(w, "fetchall", "", "") EXCEPT !.result = [kind |-> "rows", rows |-> rows]]
    ELSE [Call(w, "fetchone", "", "") EXCEPT !.result =
             IF Len(rows) = 0 THEN NoResult
             ELSE [kind |-> "row", rows |-> <<rows[1]>>]]

\* ------------------------------------------------------ configuration
\* all([self.__config[x] != '' for x in self.__config])
AllParametersSet(cfg) == \A x \in DOMAIN cfg : cfg[x] # ""

\* self.__config[key] = value  (a key the dict lacks is added)
SetItem(cfg, key, value) ==
    [k \in DOMAIN cfg \cup {key} |-> IF k = key THEN value ELSE cfg[k]]

update_config_values(w, name, host, port, user, password) ==
    [w EXCEPT !.cfg =
        SetItem(SetItem(SetItem(SetItem(SetItem(@,
            "db_name", name), "db_host", host), "db_port", port),
            "db_user", user), "db_pass", password)]

update_config_value(w, key, value) ==
    [w EXCEPT !.cfg = SetItem(@, key, value)]

\* The five assignments self.__config[k] = loaded_config[jk(k)], in source
\* order; the first key the loaded object lacks raises KeyError and the
\* assignments before it have already happened.
\* Mutant: a loader that leaves a field alone when the object lacks its key.
RECURSIVE AssignLoadedLenient(_, _, _, _)
AssignLoadedLenient(w, loaded, packaged, i) ==
    IF i > Len(ConfigKeys) THEN w
    ELSE LET k == ConfigKeys[i]
             jk == IF packaged THEN k ELSE LegacyJsonKey(k)
         IN  AssignLoadedLenient(
                 IF jk \in DOMAIN loaded
                 THEN [w EXCEPT !.cfg = SetItem(@, k, loaded[jk])] ELSE w,
                 loaded, packaged, i + 1)

RECURSIVE AssignLoaded(_, _, _, _)
AssignLoaded(w, loaded, packaged, i) ==
    IF i > Len(ConfigKeys) THEN w
    ELSE LET k == ConfigKeys[i]
             jk == IF packaged THEN k ELSE LegacyJsonKey(k)
         IN  IF jk \in DOMAIN loaded
             THEN AssignLoaded([w EXCEPT !.cfg = SetItem(@, k, loaded[jk])],
                               loaded, packaged, i + 1)
             ELSE Raise(w, "KeyError")

update_config_values_from_json(w, file) ==
    IF file.is_file
    THEN IF \A key \in DOMAIN file.loaded : key \in ConfigKeySet
         THEN AssignLoaded(w, file.loaded, TRUE, 1)
         ELSE Raise(w, "ValueError")
    ELSE Raise(w, "FileNotFoundError")

legacy_update_config_values_from_json(w, file) ==
    IF file.is_file
    THEN AssignLoaded(w, file.loaded, FALSE, 1)
    ELSE Raise(w, "FileNotFoundError")

\* os.environ.get(name)
EnvGet(environ, name) == IF name \in DOMAIN environ THEN environ[name] ELSE None

\* self.__config[field] = os.environ.get(name)
EnvAssign(w, field, environ, name) ==
    [Call(w, "environ.get", name, "") EXCEPT !.cfg = SetItem(@, field, EnvGet(environ, name))]

\* Refusing only a tuple that is too short.
update_config_values_from_env_short(w, env_keys, environ) ==
    LET keys == IF ~env_keys.given THEN default_keys ELSE env_keys.keys
    IN  IF env_keys.given /\ Len(env_keys.keys) < 5
        THEN Raise(w, "AssertionError")
        ELSE EnvAssign(EnvAssign(EnvAssign(EnvAssign(EnvAssign(w,
                    "db_name", environ, keys[1]),
                    "db_user", environ, keys[2]),
                    "db_pass", environ, keys[3]),
                    "db_host", environ, keys[4]),
                    "db_port", environ, keys[5])

update_config_values_from_env(w, env_keys, environ) ==
    LET keys == IF ~env_keys.given THEN default_keys ELSE env_keys.keys
    IN  IF env_keys.given /\ Len(env_keys.keys) # 5
        THEN Raise(w, "AssertionError")
        ELSE EnvAssign(EnvAssign(EnvAssign(EnvAssign(EnvAssign(w,
                    "db_name", environ, keys[1]),
                    "db_user", environ, keys[2]),
                    "db_pass", environ, keys[3]),
                    "db_host", environ, keys[4]),
                    "db_port", environ, keys[5])

\* ------------------------------------------------------------ connect
\* Packaged connect(cursor_type).  co: outcome of psycopg2.connect; so: outcome
\* of the SET client_connection_check_interval statement.
\* connect() choosing the cursor factory by its argument alone.
connect_open_by_argument(w0, cursor_type, co, so) ==
    IF AllParametersSet(w0.cfg)
    THEN LET cfactory == IF cursor_type = "realdict" THEN "RealDictCursor" ELSE "DictCursor"
             w1 == psycopg2_connect(w0, cfactory, co)
             c == Len(w1.conns)
         IN  IF w1.raised # "none" THEN w1
             ELSE LET w2 == cursor_execute(w1, c, SessionStatement, None, so)
                  IN  IF w2.raised # "none" THEN w2
                      ELSE [connection_commit(w2, c) EXCEPT
                                !.connection = c, !.cursor = c, !.connected = TRUE]
    ELSE Raise(w0, "ValueError")

connect_open(w0, cursor_type, co, so) ==
    IF AllParametersSet(w0.cfg)
    THEN LET ct == IF w0.dcur # "" THEN w0.dcur ELSE cursor_type
             cfactory == IF ct = "realdict" THEN "RealDictCursor" ELSE "DictCursor"
             w1 == psycopg2_connect(w0, cfactory, co)
             c == Len(w1.conns)
         IN  IF w1.raised # "none"
             THEN w1
             ELSE LET w2 == cursor_execute(w1, c, SessionStatement, None, so)
                  IN  IF w2.raised # "none"
                      THEN w2
                      ELSE [connection_commit(w2, c) EXCEPT
                               !.connection = c, !.cursor = c, !.connected = TRUE]
    ELSE Raise(w0, "ValueError")

\* Mutant: a connect that refuses a handle that is already connected.
connect_refusing(w, cursor_type, co, so) ==
    LET w0 == Call(w, "connect()", cursor_type, "")
    IN  IF ~w0.connected
        THEN connect_open(w0, cursor_type, co, so)
        ELSE Raise(w0, "ConnectionError")

connect(w, cursor_type, co, so) ==
    LET w0 == Call(w, "connect()", cursor_type, "")
    IN  IF ~w0.connected
        THEN connect_open(w0, cursor_type, co, so)
        ELSE w0

\* Legacy connect(): no look at self.connected, always RealDictCursor, no
\* session statement.
legacy_connect(w, co) ==
    LET w0 == Call(w, "connect()", "", "")
    IN  IF AllParametersSet(w0.cfg)
        THEN LET w1 == psycopg2_connect(w0, "RealDictCursor", co)
                 c == Len(w1.conns)
             IN  IF w1.raised # "none"
                 THEN w1
                 ELSE [w1 EXCEPT !.connection = c, !.cursor = c, !.connected = TRUE]
        ELSE Raise(w0, "ValueError")

\* ------------------------------------------------------------ queries
\* Mutant: a write that rolls back when the statement fails.
run_query_connected_rollback(w0, query, values, eo) ==
    IF w0.connected
    THEN LET w1 == cursor_execute(w0, w0.cursor, query, values, eo)
         IN  IF w1.raised # "none"
             THEN Raise(connection_rollback(w1, w1.connection), w1.raised)
             ELSE connection_commit(w1, w1.connection)
    ELSE Raise(w0, "ConnectionError")

\* if self.connected: try execute / except OperationalError: raise /
\* else: commit; else: raise ConnectionError.  The same in both copies.
\* run_query recovering a failed transaction the way run_read_query does.
run_query_connected_recovering(w0, query, values, eo) ==
    IF w0.connected
    THEN LET w1 == cursor_execute(w0, w0.cursor, query, values, eo)
         IN  IF w1.raised = "InFailedSqlTransaction"
             THEN connection_commit(cursor_execute(
                      connection_rollback(Caught(w1), w1.connection),
                      w1.cursor, query, values, "ok"), w1.connection)
             ELSE IF w1.raised # "none"
             THEN w1
             ELSE connection_commit(w1, w1.connection)
    ELSE Raise(w0, "ConnectionError")

run_query_connected(w0, query, values, eo) ==
    IF w0.connected
    THEN LET w1 == cursor_execute(w0, w0.cursor, query, values, eo)
         IN  IF w1.raised # "none"
             THEN w1
             ELSE connection_commit(w1, w1.connection)
    ELSE Raise(w0, "ConnectionError")

\* Mutant: a run_query that connects whatever force says.
run_query_always_forcing(w, query, values, force, co, so, eo) ==
    LET w0 == IF ~w.connected THEN connect(w, "realdict", co, so) ELSE w
    IN  IF w0.raised # "none"
        THEN w0
        ELSE run_query_connected(w0, query, values, eo)

\* Packaged run_query(query, values, force, do_print); do_print only prints.
\* force=True opening a connection whether or not the handle is connected.
run_query_reconnecting(w, query, values, force, co, so, eo) ==
    LET w0 == IF force
              THEN connect_open(Call(w, "connect()", "realdict", ""), "realdict", co, so)
              ELSE w
    IN  IF w0.raised # "none"
        THEN w0
        ELSE run_query_connected(w0, query, values, eo)

run_query(w, query, values, force, co, so, eo) ==
    LET w0 == IF force /\ ~w.connected THEN connect(w, "realdict", co, so) ELSE w
    IN  IF w0.raised # "none"
        THEN w0
        ELSE run_query_connected(w0, query, values, eo)

\* Legacy run_query(query).
legacy_run_query(w, query, eo) == run_query_connected(w, query, None, eo)

\* The try body shared by both run_read_query: execute, or TypeError for
\* values that are not a list.
ReadExecute(w, query, values, eo) ==
    IF values = None
    THEN cursor_execute(w, w.cursor, query, None, eo)
    ELSE IF values = "list"
         THEN cursor_execute(w, w.cursor, query, values, eo)
         ELSE Raise(w, "TypeError")

\* The else branch shared by both: fetch, commit, return.
\* Fetching every row whatever fetch_all says.
FetchCommitReturn_fetchall(w, fetch_all, rows) ==
    connection_commit(cursor_fetch(w, TRUE, rows), w.connection)

FetchCommitReturn(w, fetch_all, rows) ==
    connection_commit(cursor_fetch(w, fetch_all, rows), w.connection)

\* Mutant: a handler that rolls back and retries a second time.
InFailedSqlTransaction_retrying(w1, query, values, fetch_all, e2, rows) ==
    LET w2 == connection_rollback(Caught(w1), w1.connection)
        w3 == cursor_execute(w2, w2.cursor, query, values, e2)
        w4 == IF w3.raised = "none" THEN w3
              ELSE cursor_execute(connection_rollback(Caught(w3), w3.connection),
                                  w3.cursor, query, values, "ok")
    IN  FetchCommitReturn(w4, fetch_all, rows)

\* except psycopg2.errors.InFailedSqlTransaction: rollback, execute again,
\* fetch, commit, return.
InFailedSqlTransaction_handler(w1, query, values, fetch_all, e2, rows) ==
    LET w2 == connection_rollback(Caught(w1), w1.connection)
        w3 == cursor_execute(w2, w2.cursor, query, values, e2)
    IN  IF w3.raised # "none"
        THEN w3
        ELSE FetchCommitReturn(w3, fetch_all, rows)

\* Packaged run_read_query.  e1: outcome of the first execute, e2: of the
\* execute in the InFailedSqlTransaction handler.
run_read_query(w, query, values, force, fetch_all, co, so, e1, e2, rows) ==
    LET w0 == IF force /\ ~w.connected THEN connect(w, "realdict", co, so) ELSE w
    IN  IF w0.raised # "none"
        THEN w0
        ELSE IF w0.connected
             THEN LET w1 == ReadExecute(w0, query, values, e1)
                  IN  IF w1.raised = "none"
                      THEN FetchCommitReturn(w1, fetch_all, rows)
                      ELSE IF w1.raised = "OperationalError"
                      THEN w1
                      ELSE IF w1.raised = "InFailedSqlTransaction"
                      THEN InFailedSqlTransaction_handler(w1, query, values,
                                                          fetch_all, e2, rows)
                      ELSE w1
             ELSE Raise(w0, "ConnectionError")

\* Legacy run_read_query(query, values, fetch_all): only OperationalError is
\* caught (and raised again).
legacy_run_read_query(w, query, values, fetch_all, e1, rows) ==
    IF w.connected
    THEN LET w1 == ReadExecute(w, query, values, e1)
         IN  IF w1.raised # "none"
             THEN w1
             ELSE FetchCommitReturn(w1, fetch_all, rows)
    ELSE Raise(w, "ConnectionError")

\* -------------------------------------------------------------- close
\* Mutant: a close that closes whatever connection the handle still holds.
close_unguarded(w) ==
    IF w.connection # 0
    THEN [connection_close(w, w.connection) EXCEPT !.connected = FALSE]
    ELSE w

\* Mutant: a close that forgets the connected flag.
close_keeping_flag(w) ==
    IF w.connected
    THEN connection_close(w, w.connection)
    ELSE w

close(w) ==
    IF w.connected
    THEN [connection_close(w, w.connection) EXCEPT !.connected = FALSE]
    ELSE w

legacy_close(w) ==
    IF w.connected
    THEN [connection_close(w, w.connection) EXCEPT !.connected = FALSE]
    ELSE Raise(w, "ConnectionError")

\* -------------------------------------------------------- constructor
Lower(s) == IF s = "RealDict" THEN "realdict" ELSE s

__init__(w, config_file, auto_config, auto_config_mode, auto_connect, dcur, environ, co, so) ==
    IF Lower(dcur) \notin {"", "realdict", "dict"}
    THEN Raise(w, "ValueError")
    ELSE LET w0 == [w EXCEPT !.cfg = EmptyConfig, !.dcur = dcur, !.cursor = 0,
                             !.connection = 0, !.connected = FALSE]
         IN  IF auto_config
             THEN LET w1 == IF auto_config_mode = "env"
                            THEN update_config_values_from_env(w0, NoEnvKeys, environ)
                            ELSE IF auto_config_mode = "json"
                            THEN update_config_values_from_json(w0, config_file)
                            ELSE w0
                  IN  IF w1.raised # "none"
                      THEN w1
                      ELSE IF auto_connect
                      THEN connect(w1, "realdict", co, so)
                      ELSE w1
             ELSE w0

legacy___init__(w, config_file, auto_config, auto_connect, co) ==
    LET w0 == [w EXCEPT !.cursor = 0, !.connection = 0, !.connected = FALSE]
    IN  IF auto_config
        THEN LET w1 == legacy_update_config_values_from_json(w0, config_file)
             IN  IF w1.raised # "none"
                 THEN w1
                 ELSE IF auto_connect
                 THEN legacy_connect(w1, co)
                 ELSE w1
        ELSE w0

\* ------------------------------------------------------------ actions
NoCall == [op |-> "none", h |-> "A", args |-> <<>>,
           pre |-> [connected |-> FALSE, connection |-> 0, cursor |-> 0,
                    failed |-> FALSE, nconns |-> 0],
           cfg |-> EmptyConfig,
           calls |-> <<>>, raised |-> "none", result |-> NoResult]

Init ==
    /\ variant \in Variants
    /\ alive = [h \in Handles |-> FALSE]
    /\ cfgStore = [o \in Owners |-> EmptyConfig]
    /\ default_cursor = [h \in Handles |-> ""]
    /\ connected = [h \in Handles |-> FALSE]
    /\ connection = [h \in Handles |-> 0]
    /\ cursor = [h \in Handles |-> 0]
    /\ conns = <<>>
    /\ last = NoCall

\* A constructor that raises leaves no object behind: only what it did to
\* the class-level dict (legacy) and to the server stays.
Discard(h, w) ==
    IF w.raised = "none" THEN w
    ELSE [w EXCEPT !.cfg = IF variant = "legacy" THEN w.cfg ELSE cfgStore[h],
                   !.dcur = default_cursor[h], !.connected = FALSE,
                   !.connection = 0, !.cursor = 0]

Failed(h) == connected[h] /\ conns[connection[h]].failed

\* The method call op(args) on handle h took the world to w.  last keeps
\* the call: its arguments, the handle before it, the config it worked on,
\* the psycopg2 primitives it called, what it raised and returned.
Store(h, w, op, args) ==
    LET kept == IF op = "__init__" THEN Discard(h, w) ELSE w
    IN  /\ Len(w.conns) <= MaxConns
        /\ cfgStore' = [cfgStore EXCEPT ![OwnerOf(h)] = kept.cfg]
        /\ default_cursor' = [default_cursor EXCEPT ![h] = kept.dcur]
        /\ connected' = [connected EXCEPT ![h] = kept.connected]
        /\ connection' = [connection EXCEPT ![h] = kept.connection]
        /\ cursor' = [cursor EXCEPT ![h] = kept.cursor]
        /\ conns' = w.conns
        /\ last' = [op |-> op, h |-> h, args |-> args,
                    pre |-> [connected |-> connected[h], connection |-> connection[h],
                             cursor |-> cursor[h], failed |-> Failed(h),
                             nconns |-> Len(conns)],
                    cfg |-> w.cfg,
                    calls |-> w.calls, raised |-> w.raised, result |-> w.result]
        /\ UNCHANGED variant

\* The outcomes a call can meet: psycopg2.connect and the session statement
\* only when the call connects, the handler's execute only when the
\* transaction has failed.
ConnectOracle(will) == IF will THEN ConnectOutcomes ELSE {"ok"}
SessionOracle(will, co) == IF will /\ co = "ok" THEN ExecOutcomes ELSE {"ok"}
ExecOracle(h, will) ==
    IF (connected[h] /\ ~Failed(h)) \/ (~connected[h] /\ will) THEN ExecOutcomes ELSE {"ok"}
RetryOracle(h) == IF Failed(h) THEN ExecOutcomes ELSE {"ok"}
RowsOracle(e1, e2) == IF e1 = "ok" /\ e2 = "ok" THEN RowSeqs ELSE {<<>>}

Packaged_init(h, Files, Envs, Dcurs) ==
    /\ variant = "packaged" /\ ~alive[h]
    /\ \E auto_config \in BOOLEAN, auto_connect \in BOOLEAN,
          auto_config_mode \in {"env", "json", "other"}, dcur \in Dcurs :
         \E config_file \in IF auto_config /\ auto_config_mode = "json"
                            THEN Files ELSE {MissingFile},
            environ \in IF auto_config /\ auto_config_mode = "env"
                        THEN Envs ELSE {EnvUniform(None)},
            co \in ConnectOracle(auto_config /\ auto_connect) :
           \E so \in SessionOracle(auto_config /\ auto_connect, co) :
             LET w == __init__(World(h), config_file, auto_config, auto_config_mode,
                               auto_connect, dcur, environ, co, so)
             IN  /\ Store(h, w, "__init__",
                          [config_file |-> config_file, auto_config |-> auto_config,
                           auto_config_mode |-> auto_config_mode,
                           auto_connect |-> auto_connect, default_cursor |-> dcur])
                 /\ alive' = [alive EXCEPT ![h] = (w.raised = "none")]

Legacy_init(h, Files) ==
    /\ variant = "legacy" /\ ~alive[h]
    /\ \E auto_config \in BOOLEAN, auto_connect \in BOOLEAN :
         \E config_file \in IF auto_config THEN Files ELSE {MissingFile},
            co \in ConnectOracle(auto_config /\ auto_connect) :
             LET w == legacy___init__(World(h), config_file, auto_config, auto_connect, co)
             IN  /\ Store(h, w, "__init__",
                          [config_file |-> config_file, auto_config |-> auto_config,
                           auto_config_mode |-> "json",
                           auto_connect |-> auto_connect, default_cursor |-> ""])
                 /\ alive' = [alive EXCEPT ![h] = (w.raised = "none")]

Do_update_config_values(h, Tuples) ==
    /\ alive[h]
    /\ \E t \in Tuples :
         Store(h, update_config_values(World(h), t[1], t[2], t[3], t[4], t[5]),
               "update_config_values", t)
    /\ UNCHANGED alive

Packaged_update_config_value(h, Keys) ==
    /\ variant = "packaged" /\ alive[h]
    /\ \E key \in Keys, value \in SetterValues :
         Store(h, update_config_value(World(h), key, value),
               "update_config_value", <<key, value>>)
    /\ UNCHANGED alive

Packaged_update_config_values_from_json(h, Files) ==
    /\ variant = "packaged" /\ alive[h]
    /\ \E config_file \in Files :
         Store(h, update_config_values_from_json(World(h), config_file),
               "update_config_values_from_json", [config_file |-> config_file])
    /\ UNCHANGED alive

Legacy_update_config_values_from_json(h, Files) ==
    /\ variant = "legacy" /\ alive[h]
    /\ \E config_file \in Files :
         Store(h, legacy_update_config_values_from_json(World(h), config_file),
               "update_config_values_from_json", [config_file |-> config_file])
    /\ UNCHANGED alive

Packaged_update_config_values_from_env(h, KeyInputs, Envs) ==
    /\ variant = "packaged" /\ alive[h]
    /\ \E env_keys \in KeyInputs, environ \in Envs :
         Store(h, update_config_values_from_env(World(h), env_keys, environ),
               "update_config_values_from_env", [env_keys |-> env_keys])
    /\ UNCHANGED alive

Packaged_connect(h, Types) ==
    /\ variant = "packaged" /\ alive[h]
    /\ \E cursor_type \in Types, co \in ConnectOracle(~connected[h]) :
         \E so \in SessionOracle(~connected[h], co) :
           Store(h, connect(World(h), cursor_type, co, so),
                 "connect", [cursor_type |-> cursor_type])
    /\ UNCHANGED alive

Legacy_connect(h) ==
    /\ variant = "legacy" /\ alive[h]
    /\ \E co \in ConnectOutcomes :
         Store(h, legacy_connect(World(h), co), "connect", [cursor_type |-> ""])
    /\ UNCHANGED alive

Packaged_run_query(h) ==
    /\ variant = "packaged" /\ alive[h]
    /\ \E query \in Queries, values \in ValueInputs, force \in BOOLEAN :
         \E co \in ConnectOracle(force /\ ~connected[h]), eo \in ExecOracle(h, force) :
           \E so \in SessionOracle(force /\ ~connected[h], co) :
             Store(h, run_query(World(h), query, values, force, co, so, eo),
                   "run_query", [query |-> query, values |-> values, force |-> force])
    /\ UNCHANGED alive

Legacy_run_query(h) ==
    /\ variant = "legacy" /\ alive[h]
    /\ \E query \in Queries, eo \in ExecOracle(h, FALSE) :
         Store(h, legacy_run_query(World(h), query, eo),
               "run_query", [query |-> query, values |-> None, force |-> FALSE])
    /\ UNCHANGED alive

Packaged_run_read_query(h) ==
    /\ variant = "packaged" /\ alive[h]
    /\ \E query \in Queries, values \in ValueInputs, force \in BOOLEAN,
          fetch_all \in BOOLEAN :
         \E co \in ConnectOracle(force /\ ~connected[h]),
            e1 \in ExecOracle(h, force), e2 \in RetryOracle(h) :
           \E so \in SessionOracle(force /\ ~connected[h], co), rows \in RowsOracle(e1, e2) :
             Store(h, run_read_query(World(h), query, values, force, fetch_all,
                                     co, so, e1, e2, rows),
                   "run_read_query",
                   [query |-> query, values |-> values, force |-> force,
                    fetch_all |-> fetch_all, rows |-> rows])
    /\ UNCHANGED alive

Legacy_run_read_query(h) ==
    /\ variant = "legacy" /\ alive[h]
    /\ \E query \in Queries, values \in ValueInputs, fetch_all \in BOOLEAN,
          e1 \in ExecOracle(h, FALSE) :
        \E rows \in RowsOracle(e1, "ok") :
         Store(h, legacy_run_read_query(World(h), query, values, fetch_all, e1, rows),
               "run_read_query",
               [query |-> query, values |-> values, force |-> FALSE,
                fetch_all |-> fetch_all, rows |-> rows])
    /\ UNCHANGED alive

Packaged_close(h) ==
    /\ variant = "packaged" /\ alive[h]
    /\ Store(h, close(World(h)), "close", <<>>)
    /\ UNCHANGED alive

Legacy_close(h) ==
    /\ variant = "legacy" /\ alive[h]
    /\ Store(h, legacy_close(World(h)), "close", <<>>)
    /\ UNCHANGED alive

\* ----------------------------------------------------- specifications
\* Spec: the life of one handle.  The configuration reaches the handle through
\* the constructor and update_config_values, from a few inputs: every field
\* set, a field left empty, the environment with and without its variables.
LifeTuples == {<<"a", "a", "a", "a", "a">>, <<"a", "a", "a", "a", "">>}
LifeFiles == {MissingFile, FullFile(ExpectedKeys)}
LifeEnvs == {EnvUniform("a"), EnvUniform(None)}
LifeDcurs == {"", "bogus"}

Next ==
    \/ Packaged_init("A", LifeFiles, LifeEnvs, LifeDcurs)
    \/ Legacy_init("A", LifeFiles)
    \/ Do_update_config_values("A", LifeTuples)
    \/ Packaged_connect("A", {"realdict"})
    \/ Legacy_connect("A")
    \/ Packaged_run_query("A")
    \/ Legacy_run_query("A")
    \/ Packaged_run_read_query("A")
    \/ Legacy_run_read_query("A")
    \/ Packaged_close("A")
    \/ Legacy_close("A")

Spec == Init /\ [][Next]_vars

\* SpecConfig: every way of configuring one handle, and connect.
AllTuples == [1..5 -> SetterValues]

NextConfig ==
    \/ Packaged_init("A", JsonFiles(ConfigKeySet), Environments, {"", "bogus"})
    \/ Legacy_init("A", JsonFiles(LegacyJsonKeySet))
    \/ Do_update_config_values("A", AllTuples)
    \/ Packaged_update_config_value("A", ConfigKeySet)
    \/ Packaged_update_config_values_from_json("A", JsonFiles(ConfigKeySet))
    \/ Legacy_update_config_values_from_json("A", JsonFiles(LegacyJsonKeySet))
    \/ Packaged_update_config_values_from_env("A", EnvKeyInputs, Environments)
    \/ Packaged_connect("A", {"realdict"})
    \/ Legacy_connect("A")

SpecConfig == Init /\ [][NextConfig]_vars

\* ------------------------------------------------------------- claims
\* What the claims read off the last call.
HandleUnchanged ==
    /\ connected[last.h] = last.pre.connected
    /\ connection[last.h] = last.pre.connection
    /\ cursor[last.h] = last.pre.cursor
HasEmptyField(cfg) == \E k \in ConfigKeySet : cfg[k] \in {"", None}
EverClosed == \E c \in 1..Len(conns) : conns[c].closes > 0
IsQuery == last.op \in {"run_query", "run_read_query"}
TheStatement == <<"execute", last.args.query, last.args.values>>
TheFetch == <<IF last.args.fetch_all THEN "fetchall" ELSE "fetchone", "", "">>
TheCommit == <<"commit", "", "">>
TheRollback == <<"rollback", "", "">>
StatementErrors == {"OperationalError", "ProgrammingError", "InFailedSqlTransaction"}

\* C1: connect() on a not-connected handle with one of the five config
\* fields empty (no value: '' or None) raises, never calls psycopg2.connect
\* and leaves the handle not connected.
C1_EmptyFieldFailsBeforeNetwork ==
    LET connectCalled ==
            \/ last.op = "connect" /\ ~last.pre.connected
            \/ last.op = "__init__" /\ Count(last.calls, "connect()") > 0
    IN  (connectCalled /\ HasEmptyField(last.cfg)) =>
            /\ last.raised # "none"
            /\ Count(last.calls, "psycopg2.connect") = 0
            /\ ~connected[last.h]

\* C2 as stated: connect() on a handle that is already connected raises and
\* leaves connection, cursor and flag as they were, in both variants.
C2_ConnectWhenConnectedRaises ==
    (last.op = "connect" /\ last.pre.connected) =>
        (last.raised # "none" /\ HandleUnchanged)

\* C2 amended: connect() on an already connected handle does not fail for
\* being connected.  Packaged: it returns without raising and without calling
\* psycopg2.connect, and connection, cursor and flag are as they were.
\* Legacy: it acts as on a handle that is not connected; the flag stays true,
\* a successful psycopg2.connect replaces connection and cursor by the new
\* connection, and a raise (ValueError for an empty field, the error of
\* psycopg2.connect) leaves them as they were.
C2_ConnectWhenConnected ==
    (last.op = "connect" /\ last.pre.connected) =>
        IF variant = "packaged"
        THEN /\ last.raised = "none"
             /\ Count(last.calls, "psycopg2.connect") = 0
             /\ HandleUnchanged
        ELSE /\ connected[last.h]
             /\ last.raised \in {"none", "ValueError", "OperationalError"}
             /\ last.raised = "ValueError" <=> ~AllParametersSet(last.cfg)
             /\ Count(last.calls, "psycopg2.connect") =
                    IF last.raised = "ValueError" THEN 0 ELSE 1
             /\ IF last.raised = "none"
                THEN /\ Len(conns) = last.pre.nconns + 1
                     /\ connection[last.h] = Len(conns)
                     /\ cursor[last.h] = Len(conns)
                ELSE HandleUnchanged

C2_Witness ==
    /\ variant = "packaged" /\ last.op = "connect" /\ last.pre.connected
    /\ last.raised = "none" /\ connected[last.h]

\* C3: run_query / run_read_query on a handle that is not connected, with no
\* auto-connect (force = False; the legacy copy has no force), raises
\* ConnectionError, calls no psycopg2 primitive (no execute, commit, rollback)
\* and leaves flag, connection and cursor as they were.
C3_NotConnectedRaises ==
    (IsQuery /\ ~last.pre.connected /\ ~last.args.force) =>
        /\ last.raised = "ConnectionError"
        /\ last.calls = <<>>
        /\ HandleUnchanged
        /\ Len(conns) = last.pre.nconns

C3_Witness ==
    /\ variant = "packaged" /\ last.op = "run_query"
    /\ ~last.pre.connected /\ ~last.args.force
    /\ AllParametersSet(last.cfg) /\ last.raised = "ConnectionError"

\* C4 as stated: in run_read_query on a connected handle, a first execute
\* that raises InFailedSqlTransaction is followed by exactly one rollback and
\* one more execute of the same query and values (then fetch, commit and
\* return, or the error of the second execute and nothing more); any other
\* error of the first execute propagates with no rollback and no retry.
C4_Packaged ==
    IF last.pre.failed
    THEN \/ /\ last.raised = "none"
            /\ last.calls = <<TheStatement, TheRollback, TheStatement,
                              TheFetch, TheCommit>>
         \/ /\ last.raised \in StatementErrors
            /\ last.calls = <<TheStatement, TheRollback, TheStatement>>
    ELSE last.raised # "none" =>
            (last.calls = <<TheStatement>> /\ last.raised \in StatementErrors)
C4_ReadCase ==
    /\ last.op = "run_read_query" /\ last.pre.connected
    /\ last.args.values # "tuple"

C4_FailedTransactionRetriedOnce == C4_ReadCase => C4_Packaged

\* C4 amended: the statement holds of the packaged run_read_query.  The legacy
\* run_read_query has no handler for the failed-transaction error: every
\* error of its one execute, that one too, propagates with no rollback and no
\* retry.
C4_RetryOnlyInPackaged ==
    C4_ReadCase =>
        IF variant = "packaged"
        THEN C4_Packaged
        ELSE /\ last.raised # "none" =>
                    (last.calls = <<TheStatement>> /\ last.raised \in StatementErrors)
             /\ last.pre.failed => last.raised = "InFailedSqlTransaction"

C4_Witness ==
    /\ variant = "packaged" /\ C4_ReadCase /\ last.pre.failed
    /\ last.raised = "none"
    /\ Count(last.calls, "rollback") = 1
    /\ last.result.kind # "none"

\* C5: run_query on a connected handle: a statement that executes is followed
\* by exactly one commit; a statement that raises surfaces its error with no
\* commit, no rollback, and flag, connection and cursor as they were.
C5_CommitOnSuccessOnly ==
    (last.op = "run_query" /\ last.pre.connected) =>
        IF last.raised = "none"
        THEN last.calls = <<TheStatement, TheCommit>>
        ELSE /\ last.raised \in StatementErrors
             /\ last.calls = <<TheStatement>>
             /\ HandleUnchanged

C5_Witness ==
    /\ last.op = "run_query" /\ last.pre.connected
    /\ last.raised = "ProgrammingError" /\ last.calls = <<TheStatement>>

\* C6: the connected flag is true exactly when the handle holds an open
\* connection and its cursor; when it is false both attributes are None.
C6_FlagMatchesAttributes ==
    \A h \in Handles :
        IF connected[h]
        THEN /\ connection[h] # 0 /\ cursor[h] # 0
             /\ conns[connection[h]].open
        ELSE connection[h] = 0 /\ cursor[h] = 0

C8_State ==
    /\ \A c \in 1..Len(conns) : conns[c].closes <= 1
    /\ (last.op = "close" /\ last.pre.connected) =>
            /\ last.calls = <<<<"close", "", "">>>>
            /\ last.raised = "none"
            /\ ~connected[last.h]
            /\ conns[last.pre.connection].closes = 1
            /\ ~conns[last.pre.connection].open
    /\ (last.op = "close" /\ ~last.pre.connected) =>
            /\ last.calls = <<>>
            /\ HandleUnchanged
            /\ last.raised = IF variant = "packaged" THEN "none" ELSE "ConnectionError"
C8_Step ==
    (last'.op = "close" /\ ~connected[last'.h]) =>
        UNCHANGED <<connected, connection, cursor, conns, cfgStore, default_cursor>>

C8_CloseOnce == []C8_State /\ [][C8_Step]_vars

C8_Witness ==
    /\ last.op = "close" /\ ~last.pre.connected /\ last.pre.connection # 0
    /\ conns[last.pre.connection].closes = 1

\* C9: packaged connect() on a not-connected, fully configured handle: when
\* psycopg2.connect succeeds the session statement is issued once and the
\* handle ends connected whatever the statement's outcome; when
\* psycopg2.connect fails the error is raised, there is no second attempt and
\* the handle stays not connected.
C9_ConnectedWhateverSessionOutcome ==
    (/\ variant = "packaged" /\ last.op = "connect"
     /\ ~last.pre.connected /\ ~HasEmptyField(last.cfg)
     /\ AllParametersSet(last.cfg)) =>
        IF Len(conns) > last.pre.nconns
        THEN /\ Count(last.calls, "execute") = 1
             /\ connected[last.h]
             /\ connection[last.h] # 0 /\ cursor[last.h] # 0
        ELSE /\ last.raised # "none"
             /\ Count(last.calls, "psycopg2.connect") = 1
             /\ ~connected[last.h]

\* C10: update_config_values_from_json raises for a missing file and for a
\* file whose object lacks one of the five expected keys (packaged: or holds
\* any other key); in the constructor the raise comes before connect() and
\* before psycopg2.connect.
BadFile(f) ==
    \/ ~f.is_file
    \/ ExpectedKeys \ DOMAIN f.loaded # {}
    \/ variant = "packaged" /\ ~(DOMAIN f.loaded \subseteq ConfigKeySet)
JsonLoad ==
    \/ last.op = "update_config_values_from_json"
    \/ /\ last.op = "__init__" /\ last.args.auto_config
       /\ last.args.auto_config_mode = "json"

C10_BadJsonRaisesBeforeConnect ==
    (JsonLoad /\ BadFile(last.args.config_file)) =>
        /\ last.raised \in {"FileNotFoundError", "ValueError", "KeyError"}
        /\ Count(last.calls, "connect()") = 0
        /\ Count(last.calls, "psycopg2.connect") = 0

C10_Witness ==
    /\ last.op = "__init__" /\ last.args.auto_config /\ last.args.auto_connect
    /\ last.args.auto_config_mode = "json"
    /\ last.args.config_file.is_file
    /\ ExpectedKeys \ DOMAIN last.args.config_file.loaded # {}
    /\ last.raised = "KeyError"

\* SpecCursor: a configured packaged handle built with every default_cursor,
\* connected with every cursor_type and through the force path.  The handle
\* is never closed: each connection it opens is its first.
CursorTuples == {<<"a", "a", "a", "a", "a">>}

NextCursor ==
    \/ Packaged_init("A", {FullFile(ExpectedKeys)}, {EnvUniform("a")}, DefaultCursorInputs)
    \/ Do_update_config_values("A", CursorTuples)
    \/ Packaged_connect("A", CursorTypes)
    \/ Packaged_run_query("A")
    \/ Packaged_run_read_query("A")

SpecCursor == Init /\ [][NextCursor]_vars

\* The cursor factory the last call handed to psycopg2.connect, the
\* cursor_type its connect() was given (the force path and the constructor
\* call connect() with no argument: 'realdict'), and the factory that
\* cursor_type names.
OpenedConnection == Count(last.calls, "psycopg2.connect") = 1
FactoryAsked ==
    last.calls[CHOOSE i \in 1..Len(last.calls) : last.calls[i][1] = "psycopg2.connect"][2]
CursorTypeGiven == IF last.op = "connect" THEN last.args.cursor_type ELSE "realdict"
FactoryOf(cursor_type) == IF cursor_type = "realdict" THEN "RealDictCursor" ELSE "DictCursor"
DefaultCursorOf == IF last.op = "__init__" THEN last.args.default_cursor ELSE default_cursor[last.h]

C12_AutoConnectCallsConnect ==
    last.op = "__init__" =>
        /\ (last.args.auto_connect /\ last.raised = "none") =>
                Count(last.calls, "connect()") = 1
        /\ Count(last.calls, "connect()") <= 1
        /\ ~last.args.auto_connect => Count(last.calls, "connect()") = 0

\* SpecTwo: two handles of the same class, each configured by every
\* configuration method and connected.
TwoFiles == {FullFile(ExpectedKeys)}
TwoEnvs == {EnvUniform("a"), EnvUniform(None)}

NextTwo ==
    \E h \in Handles :
        \/ Packaged_init(h, TwoFiles, TwoEnvs, {""})
        \/ Legacy_init(h, TwoFiles)
        \/ Do_update_config_values(h, LifeTuples)
        \/ Packaged_update_config_value(h, {"db_name"})
        \/ Packaged_update_config_values_from_json(h, TwoFiles)
        \/ Legacy_update_config_values_from_json(h, TwoFiles)
        \/ Packaged_update_config_values_from_env(h, {NoEnvKeys}, TwoEnvs)
        \/ Packaged_connect(h, {"realdict"})
        \/ Legacy_connect(h)

SpecTwo == Init /\ [][NextTwo]_vars

OtherHandle(h) == CHOOSE b \in Handles : b # h
ConfigOps == {"update_config_values", "update_config_value",
              "update_config_values_from_json", "update_config_values_from_env"}

\* C13: in the packaged variant a configuration operation on one handle
\* leaves the five fields of the other handle as they were, and the other
\* handle's next connect() works on those; in the legacy variant the dict is
\* the class's, so after a configuration operation on one handle the other
\* handle's fields are the ones that operation produced, and its next
\* connect() works on them.
C13_Step ==
    LET b == OtherHandle(last'.h)
    IN  /\ (last'.op \in ConfigOps /\ variant = "packaged") =>
                cfgStore'[b] = cfgStore[b]
        /\ (last'.op \in ConfigOps /\ variant = "legacy") =>
                cfgStore'[OwnerOf(b)] = last'.cfg
        /\ (last.op \in ConfigOps /\ last'.op = "connect" /\ last'.h # last.h) =>
                last'.cfg = IF variant = "legacy" THEN last.cfg ELSE cfgStore[last'.h]
C14_FetchResult ==
    (last.op = "run_read_query" /\ last.raised = "none") =>
        /\ Count(last.calls, "fetchall") + Count(last.calls, "fetchone") = 1
        /\ Count(last.calls, "fetchall") = (IF last.args.fetch_all THEN 1 ELSE 0)
        /\ last.result =
             IF last.args.fetch_all
             THEN [kind |-> "rows", rows |-> last.args.rows]
             ELSE IF last.args.rows = <<>> THEN NoResult
                  ELSE [kind |-> "row", rows |-> <<last.args.rows[1]>>]

\* After a retry, two rows yielded and fetch_all=False: the first row.
C14_Witness ==
    /\ last.op = "run_read_query" /\ last.raised = "none" /\ last.pre.failed
    /\ Count(last.calls, "rollback") = 1
    /\ ~last.args.fetch_all /\ Len(last.args.rows) = 2
    /\ last.result = [kind |-> "row", rows |-> <<1>>]

\* The reads of the environment a call made, in order.
EnvReads == SelectSeq(last.calls, LAMBDA e : e[1] = "environ.get")
ReadsOf(keys) == [i \in 1..5 |-> <<"environ.get", keys[i], "">>]

\* C15: update_config_values_from_env given a key tuple whose length is not
\* five raises at once: no environment variable read and the five fields as
\* they were.  Given a tuple of five names it reads those, and given none the
\* five default names; it then never raises.
C15_State ==
    last.op = "update_config_values_from_env" =>
        LET env_keys == last.args.env_keys
        IN  IF env_keys.given /\ Len(env_keys.keys) # 5
            THEN last.raised = "AssertionError" /\ last.calls = <<>>
            ELSE /\ last.raised = "none"
                 /\ EnvReads = ReadsOf(IF env_keys.given THEN env_keys.keys ELSE default_keys)
C15_Step ==
    (last'.op = "update_config_values_from_env" /\ last'.raised # "none") =>
        cfgStore' = cfgStore
C15_KeyCountChecked == []C15_State /\ [][C15_Step]_vars

\* Six names given to a handle whose fields are set: refused, fields kept.
C15_Witness ==
    /\ last.op = "update_config_values_from_env"
    /\ last.args.env_keys.given /\ Len(last.args.env_keys.keys) = 6
    /\ last.raised = "AssertionError"
    /\ cfgStore[OwnerOf(last.h)] = [k \in ConfigKeySet |-> "a"]

\* The executes of the caller's statement among the calls of the last call.
StatementsRun ==
    Cardinality({i \in 1..Len(last.calls) :
                    last.calls[i][1] = "execute" /\ last.calls[i][2] = last.args.query})
ForcedQuery == variant = "packaged" /\ IsQuery /\ last.args.force

\* C16: in the packaged variant run_query / run_read_query with force=True on
\* a handle that is not connected call connect() once, first; the statement
\* runs only if that left the handle connected, and when it did not, the
\* error of connect() is what the call raises, with no statement and no
\* commit.  On a connected handle they call no connect(), open no
\* connection, leave connection and cursor as they were and run the
\* statement on that cursor.
C16_ForceConnectsOnce ==
    ForcedQuery =>
        IF ~last.pre.connected
        THEN /\ Count(last.calls, "connect()") = 1
             /\ last.calls[1] = <<"connect()", "realdict", "">>
             /\ Count(last.calls, "psycopg2.connect") <= 1
             /\ StatementsRun > 0 => connected[last.h]
             /\ ~connected[last.h] =>
                    /\ last.raised \in {"ValueError"} \cup StatementErrors
                    /\ StatementsRun = 0
                    /\ Count(last.calls, "commit") = 0
                    /\ last.result = NoResult
        ELSE /\ Count(last.calls, "connect()") = 0
             /\ Count(last.calls, "psycopg2.connect") = 0
             /\ Len(conns) = last.pre.nconns
             /\ HandleUnchanged
             /\ last.raised # "TypeError" =>
                    /\ last.calls[1][1] = "execute" /\ last.calls[1][2] = last.args.query
                    /\ last.raised \in StatementErrors => conns[last.pre.cursor].failed

\* A forced query on a not-connected handle that connected and ran.
C16_Witness ==
    /\ ForcedQuery /\ ~last.pre.connected /\ connected[last.h]
    /\ last.raised = "none" /\ StatementsRun = 1
    /\ Count(last.calls, "psycopg2.connect") = 1

\* The connections psycopg2.connect returned that nobody has closed.  One
\* handle lives in Spec, so all of them are its.
OpenConnections == {c \in 1..Len(conns) : conns[c].open}

\* C17: the handle has exactly one connection open while its connected flag
\* is true and none while it is false.
C17_OneOpenConnectionIffConnected ==
    Cardinality(OpenConnections) = (IF connected["A"] THEN 1 ELSE 0)

\* C18: a call of update_config_values_from_json that raises (no file, an
\* unknown key, a missing key) leaves all five fields as they were before
\* the call.
C18_Step ==
    (last'.op = "update_config_values_from_json" /\ last'.raised # "none") =>
        cfgStore' = cfgStore
C18_JsonLoadAtomic == [][C18_Step]_vars

\* C19: run_query never rolls back.  On a connection whose transaction has
\* failed it raises InFailedSqlTransaction, commits nothing and leaves the
\* transaction failed, call after call.  The transaction of a connection
\* leaves the failed state only by the rollback of a run_read_query on it
\* (the packaged handler); a handle of the packaged variant that stays
\* connected gets out of it only that way, and otherwise has to be closed and
\* to connect anew, which gives it another connection.
C19_State ==
    last.op = "run_query" =>
        /\ Count(last.calls, "rollback") = 0
        /\ last.pre.failed =>
              /\ last.raised = "InFailedSqlTransaction"
              /\ last.calls = <<TheStatement>>
              /\ HandleUnchanged
              /\ Failed(last.h)
C19_Step ==
    /\ \A c \in 1..Len(conns) :
          (conns[c].failed /\ ~conns'[c].failed) =>
              /\ last'.op = "run_read_query" /\ variant = "packaged"
              /\ Count(last'.calls, "rollback") = 1
              /\ c = last'.pre.connection
    /\ (variant = "packaged" /\ Failed("A") /\ connected'["A"]) =>
          \/ Failed("A")'
          \/ last'.op = "run_read_query" /\ Count(last'.calls, "rollback") = 1
    /\ (variant = "packaged" /\ ~connected["A"] /\ connected'["A"]) =>
          /\ Count(last'.calls, "connect()") = 1
          /\ connection'["A"] = Len(conns') /\ Len(conns') = Len(conns) + 1
C19_FailedUntilRolledBack == []C19_State /\ [][C19_Step]_vars

\* run_query on a connection whose transaction has failed.
C19_Witness ==
    /\ last.op = "run_query" /\ last.pre.failed
    /\ last.raised = "InFailedSqlTransaction" /\ Failed(last.h)

====
